---- MODULE Spec2Model ----
(***************************************************************************)
(* Model of app.py: the daily settlement estimator                         *)
(* (estimate_daily_settlement) and the Streamlit session around it         *)
(* (show_data_input, show_daily_report, show_dashboard).                   *)
(*                                                                         *)
(* Numbers.  Python floats are modelled as exact rationals <<num, den>>    *)
(* with den > 0, kept in lowest terms; NaN is <<0, 0>>.  Factors are       *)
(* carried in fixed units: seasonal factors and noise in hundredths,       *)
(* shipping_fee_rate in hundredths, inflation_rate in thousandths,         *)
(* day_factor and peak_bonus in tenths.  round() is Python's               *)
(* round-half-to-even on the exact value.                                  *)
(***************************************************************************)
EXTENDS Integers, Sequences, FiniteSets, TLC

VARIABLES menu, rev_master, exp_master, daily_result, call, dash

vars == <<menu, rev_master, exp_master, daily_result, call, dash>>

(***************************************************************************)
(* Bounds of the model.                                                    *)
(***************************************************************************)
MaxRows == 2

(***************************************************************************)
(* Exact arithmetic standing for Python float arithmetic.                  *)
(***************************************************************************)
Abs(x) == IF x < 0 THEN -x ELSE x

RECURSIVE GCD(_, _)
GCD(a, b) == IF b = 0 THEN a ELSE GCD(b, a % b)

NaN == <<0, 0>>

IsNaN(x) == x[2] = 0

FromInt(n) == <<n, 1>>

\* x * (n / d), d > 0, cancelling before multiplying
FMul(x, n, d) ==
    IF IsNaN(x) THEN NaN
    ELSE IF x[1] = 0 \/ n = 0 THEN <<0, 1>>
    ELSE LET g1 == GCD(Abs(x[1]), d)
             g2 == GCD(Abs(n), x[2])
         IN  <<(x[1] \div g1) * (n \div g2), (x[2] \div g2) * (d \div g1)>>

FAdd(x, y) ==
    IF IsNaN(x) \/ IsNaN(y) THEN NaN
    ELSE LET g == GCD(x[2], y[2])
             l == (x[2] \div g) * y[2]
             n == x[1] * (l \div x[2]) + y[1] * (l \div y[2])
             h == GCD(Abs(n), l)
         IN  IF n = 0 THEN <<0, 1>> ELSE <<n \div h, l \div h>>

FNeg(x) == IF IsNaN(x) THEN NaN ELSE <<-x[1], x[2]>>

FSub(x, y) == FAdd(x, FNeg(y))

\* round(x) of a finite float: nearest integer, ties to the even one
Round(x) ==
    LET q == x[1] \div x[2]
        r == x[1] - q * x[2]
    IN  IF 2 * r < x[2] THEN q
        ELSE IF 2 * r > x[2] THEN q + 1
        ELSE IF q % 2 = 0 THEN q ELSE q + 1

(***************************************************************************)
(* Table cells.  A numeric cell, a missing cell (NaN) or a text cell.      *)
(***************************************************************************)
Num(v) == [kind |-> "num", v |-> v]

Missing == [kind |-> "nan", v |-> 0]

Text == [kind |-> "str", v |-> 0]

\* cell / days_in_month as a float; only called on non-text cells
CellDiv(cell, days) ==
    IF cell.kind = "nan" THEN NaN ELSE FMul(FromInt(cell.v), 1, days)

(***************************************************************************)
(* The calendar: calendar.monthrange and datetime.date, as called at       *)
(* lines 47 and 52-53.                                                     *)
(***************************************************************************)
MINYEAR == 1

MAXYEAR == 9999

isleap(year) == year % 4 = 0 /\ (year % 100 # 0 \/ year % 400 = 0)

mdays == <<31, 28, 31, 30, 31, 30, 31, 31, 30, 31, 30, 31>>

ValidMonth(month) == 1 <= month /\ month <= 12

\* a month length that forgets leap years
monthrange_noleap(year, month) == mdays[month]

\* calendar.monthrange(year, month)[1], for a valid month
monthrange(year, month) ==
    mdays[month] + (IF month = 2 /\ isleap(year) THEN 1 ELSE 0)

\* a date constructor that accepts any year
ValidDate_anyyear(year, month, day) ==
    ValidMonth(month) /\ 1 <= day /\ day <= monthrange(year, month)

\* date(year, month, day) is constructible
ValidDate(year, month, day) ==
    /\ MINYEAR <= year /\ year <= MAXYEAR
    /\ ValidMonth(month)
    /\ 1 <= day /\ day <= monthrange(year, month)

RECURSIVE DaysBeforeMonth(_, _)
DaysBeforeMonth(year, month) ==
    IF month = 1 THEN 0
    ELSE DaysBeforeMonth(year, month - 1) + monthrange(year, month - 1)

\* date.toordinal(): 1 for 0001-01-01
toordinal(year, month, day) ==
    LET y == year - 1
    IN  y * 365 + (y \div 4) - (y \div 100) + (y \div 400)
          + DaysBeforeMonth(year, month) + day

\* date.weekday(): Monday = 0 .. Sunday = 6
weekday(year, month, day) == (toordinal(year, month, day) + 6) % 7

(***************************************************************************)
(* estimate_daily_settlement, lines 44-83.                                 *)
(***************************************************************************)
\* line 46: the built-in table, in hundredths
DefaultSeasonalFactors == <<85, 88, 105, 95, 92, 102, 110, 108, 98, 100, 105, 115>>

NoFactors == [none |-> TRUE, map |-> <<>>]

Factors(f) == [none |-> FALSE, map |-> f]

\* a fallback to the built-in table, month by month
SeasonFactor_merge(seasonal_factors, target_month) ==
    IF ~seasonal_factors.none /\ target_month \in DOMAIN seasonal_factors.map
    THEN seasonal_factors.map[target_month]
    ELSE IF target_month \in DOMAIN DefaultSeasonalFactors
    THEN DefaultSeasonalFactors[target_month] ELSE 100

\* lines 45-48: seasonal_factors.get(target_month, 1.0) after the None default
SeasonFactor(seasonal_factors, target_month) ==
    IF seasonal_factors.none
    THEN (IF target_month \in DOMAIN DefaultSeasonalFactors
          THEN DefaultSeasonalFactors[target_month] ELSE 100)
    ELSE IF target_month \in DOMAIN seasonal_factors.map
    THEN seasonal_factors.map[target_month]
    ELSE 100

\* line 49, in thousandths
InflationFactor(inflation_rate) == 1000 + inflation_rate

\* a day factor that takes Saturday for a working day
DayFactor_saturday(dow) == IF dow < 6 THEN 10 ELSE 3

\* lines 54-55, in tenths
DayFactor(dow) == IF dow < 5 THEN 10 ELSE 3

\* a peak bonus granted in every month
PeakBonus_always(comp, target_month) == 12

\* line 60, in tenths
PeakBonus(comp, target_month) ==
    IF comp.seasonal_peak = target_month THEN 12 ELSE 10

\* the next draw of np.random.normal from the stream, in hundredths
Draw(noise, k) == noise[(k % Len(noise)) + 1]

\* lines 59-62 and 68-70: base * season * inflation * day_factor * bonus * noise
Contribution(base, season, inflation, day_factor, bonus, n) ==
    FMul(FMul(FMul(FMul(FMul(base, season, 100), inflation, 1000),
                   day_factor, 10), bonus, 10), n, 100)

\* lines 56-65: the loop over the revenue rows of one day
RECURSIVE RevLoop(_, _, _, _)
RevLoop(a, i, acc, ctx) ==
    IF i > Len(a) THEN acc
    ELSE IF a[i].monthly_base.kind = "str"
    THEN [acc EXCEPT !.raised = "TypeError"]
    ELSE LET comp == a[i]
             base == CellDiv(comp.monthly_base, ctx.days)
             rev  == Contribution(base, ctx.season, ctx.inflation, ctx.day_factor,
                                  PeakBonus(comp, ctx.month), Draw(ctx.noise, acc.k))
             ship == FMul(rev, comp.shipping_fee_rate, 100)
         IN  RevLoop(a, i + 1,
                     [acc EXCEPT !.revenue = FAdd(@, rev),
                                 !.shipping = FAdd(@, ship),
                                 !.k = @ + 1], ctx)

\* lines 66-71: the loop over the expense rows of one day
RECURSIVE ExpLoop(_, _, _, _)
ExpLoop(a, i, acc, ctx) ==
    IF i > Len(a) THEN acc
    ELSE IF a[i].monthly_base.kind = "str"
    THEN [acc EXCEPT !.raised = "TypeError"]
    ELSE LET base == CellDiv(a[i].monthly_base, ctx.days)
             exp  == Contribution(base, ctx.season, ctx.inflation, ctx.day_factor,
                                  10, Draw(ctx.noise, acc.k))
         IN  ExpLoop(a, i + 1,
                     [acc EXCEPT !.expense = FAdd(@, exp), !.k = @ + 1], ctx)

\* lines 72-80: the record of one day, each field rounded on its own
DayRecord(d, dow, acc) ==
    [date              |-> d,
     weekday           |-> dow,
     estimated_revenue |-> Round(acc.revenue),
     shipping_revenue  |-> Round(acc.shipping),
     total_revenue     |-> Round(FAdd(acc.revenue, acc.shipping)),
     estimated_expense |-> Round(acc.expense),
     estimated_profit  |-> Round(FSub(FAdd(acc.revenue, acc.shipping), acc.expense))]

\* lines 51-80: the loop over the days; stops at the first exception
RECURSIVE DayLoop(_, _, _, _, _)
DayLoop(rev, exp, day, st, ctx) ==
    IF day > ctx.days THEN st
    ELSE IF ~ValidDate(ctx.year, ctx.month, day)
    THEN [st EXCEPT !.raised = "ValueError"]
    ELSE LET dow  == weekday(ctx.year, ctx.month, day)
             c    == [ctx EXCEPT !.day_factor = DayFactor(dow)]
             zero == [revenue |-> FromInt(0), shipping |-> FromInt(0),
                      expense |-> FromInt(0), k |-> st.k, raised |-> "none"]
             a1   == RevLoop(rev, 1, zero, c)
             a2   == IF a1.raised # "none" THEN a1 ELSE ExpLoop(exp, 1, a1, c)
         IN  IF a2.raised # "none"
             THEN [st EXCEPT !.raised = a2.raised, !.k = a2.k]
             ELSE IF IsNaN(a2.revenue) \/ IsNaN(a2.shipping) \/ IsNaN(a2.expense)
             THEN [st EXCEPT !.raised = "ValueError", !.k = a2.k]
             ELSE DayLoop(rev, exp, day + 1,
                          [st EXCEPT !.records = Append(@, DayRecord(
                                        <<ctx.year, ctx.month, day>>, dow, a2)),
                                     !.k = a2.k], c)

\* a running sum that leaves the current row out
RECURSIVE CumSum_exclusive(_, _, _)
CumSum_exclusive(records, i, total) ==
    IF i > Len(records) THEN <<>>
    ELSE <<[date              |-> records[i].date,
            weekday           |-> records[i].weekday,
            estimated_revenue |-> records[i].estimated_revenue,
            shipping_revenue  |-> records[i].shipping_revenue,
            total_revenue     |-> records[i].total_revenue,
            estimated_expense |-> records[i].estimated_expense,
            estimated_profit  |-> records[i].estimated_profit,
            cumulative_profit |-> total]>>
           \o CumSum_exclusive(records, i + 1, total + records[i].estimated_profit)

\* line 82: df["累計損益"] = df["推定損益"].cumsum()
RECURSIVE CumSum(_, _, _)
CumSum(records, i, total) ==
    IF i > Len(records) THEN <<>>
    ELSE LET t == total + records[i].estimated_profit
         IN  <<[date              |-> records[i].date,
                weekday           |-> records[i].weekday,
                estimated_revenue |-> records[i].estimated_revenue,
                shipping_revenue  |-> records[i].shipping_revenue,
                total_revenue     |-> records[i].total_revenue,
                estimated_expense |-> records[i].estimated_expense,
                estimated_profit  |-> records[i].estimated_profit,
                cumulative_profit |-> t]>> \o CumSum(records, i + 1, t)

\* The outcome of one call: raised is "none" and df the returned frame, or
\* raised names the exception, rows counts the records appended before it was
\* raised, and df is empty (nothing is returned).
estimate_daily_settlement(rev, exp, a) ==
    IF ~ValidMonth(a.month)
    THEN [raised |-> "IllegalMonthError", rows |-> 0, df |-> <<>>]
    ELSE LET ctx == [year |-> a.year, month |-> a.month,
                     days |-> monthrange(a.year, a.month),
                     season |-> SeasonFactor(a.seasonal_factors, a.month),
                     inflation |-> InflationFactor(a.inflation_rate),
                     day_factor |-> 10, noise |-> a.noise]
             st  == DayLoop(rev, exp, 1,
                            [records |-> <<>>, k |-> 0, raised |-> "none"], ctx)
         IN  IF st.raised # "none"
             THEN [raised |-> st.raised, rows |-> Len(st.records), df |-> <<>>]
             ELSE [raised |-> "none", rows |-> Len(st.records),
                   df |-> CumSum(st.records, 1, 0)]

(***************************************************************************)
(* Inputs.  Tables are selections of at most MaxRows rows of a catalogue,  *)
(* in catalogue order.  The catalogue holds rows of the shape the sample   *)
(* masters have (lines 16-41) and rows a data editor or a CSV can supply:  *)
(* a rate outside [0, 1], a text cell, a missing cell.                     *)
(***************************************************************************)
RevRow(b, rate, peak) ==
    [monthly_base |-> b, shipping_fee_rate |-> rate, seasonal_peak |-> peak]

ExpRow(b) == [monthly_base |-> b]

RevCatalogue ==
    << RevRow(Num(3000000), 0, 1),
       RevRow(Num(1500000), 7, 2),
       RevRow(Num(700000), 150, 12),
       RevRow(Text, 5, 3),
       RevRow(Missing, 10, 6) >>

ExpCatalogue ==
    << ExpRow(Num(2000000)), ExpRow(Num(4500000)), ExpRow(Text), ExpRow(Missing) >>

RECURSIVE Select(_, _, _)
Select(cat, S, i) ==
    IF i > Len(cat) THEN <<>>
    ELSE (IF i \in S THEN <<cat[i]>> ELSE <<>>) \o Select(cat, S, i + 1)

Tables(cat) ==
    {Select(cat, S, 1) : S \in {T \in SUBSET DOMAIN cat : Cardinality(T) <= MaxRows}}

\* streams of noise draws, in hundredths; <<100>> is the constant 1.0
NoiseStreams == {<<100>>, <<95, 105, 100>>, <<108, 97>>}

CustomFactors == [m \in 1..12 |-> IF m = 2 THEN 90 ELSE DefaultSeasonalFactors[m]]

Years == {0, 2000, 2023, 2024, 2100, 10000}

Months == 0..13

Rates == {-50, 0, 20}

FactorMaps ==
    {NoFactors, Factors([m \in {2} |-> 88]), Factors([m \in {1, 7} |-> 120]),
     Factors(CustomFactors)}

Args(y, m, r, f, n) ==
    [year |-> y, month |-> m, inflation_rate |-> r, seasonal_factors |-> f,
     noise |-> n]

\* tables of at most one row, the first of its catalogue
FirstRow(cat) == {<<>>, <<cat[1]>>}

\* Direct calls, as <<rev_master, exp_master, arguments>>: every (year, month)
\* on the first-row tables with the other arguments plain, and every
\* combination of tables and other arguments for February 2024.
EstInputs ==
    {<<rev, exp, Args(y, m, 0, NoFactors, <<100>>)>> :
        rev \in FirstRow(RevCatalogue), exp \in FirstRow(ExpCatalogue),
        y \in Years, m \in Months}
      \cup
    {<<rev, exp, Args(2024, 2, ra[1], f, ra[2])>> :
        rev \in Tables(RevCatalogue), exp \in Tables(ExpCatalogue),
        ra \in Rates \X NoiseStreams, f \in FactorMaps}

(***************************************************************************)
(* State.                                                                  *)
(***************************************************************************)
NoResult == [present |-> FALSE, df |-> <<>>]

Stored(df) == [present |-> TRUE, df |-> df]

NotRendered == [shown |-> "none"]

\* lines 151-157: the call and, when it returns, the store of its result
DoRun(a) ==
    \E out \in {estimate_daily_settlement(rev_master, exp_master, a)} :
        /\ call' = [state |-> IF out.raised = "none" THEN "returned" ELSE "raised",
                    args |-> a, raised |-> out.raised, rows |-> out.rows]
        /\ daily_result' = IF out.raised = "none" THEN Stored(out.df)
                           ELSE daily_result
        /\ UNCHANGED <<menu, rev_master, exp_master, dash>>

(***************************************************************************)
(* show_dashboard, lines 194-227.                                          *)
(***************************************************************************)
\* line 214: the default value of the target widget
DefaultTarget == 5000000

\* _isoweek1monday(year) of datetime: the ordinal of the Monday of ISO week 1
isoweek1monday(year) ==
    LET firstday     == toordinal(year, 1, 1)
        firstweekday == (firstday + 6) % 7
        monday       == firstday - firstweekday
    IN  IF firstweekday > 3 THEN monday + 7 ELSE monday

\* line 204: date.isocalendar().week
isoweek(d) ==
    LET today == toordinal(d[1], d[2], d[3])
        week  == (today - isoweek1monday(d[1])) \div 7
    IN  IF week < 0
        THEN ((today - isoweek1monday(d[1] - 1)) \div 7) + 1
        ELSE IF week >= 52 /\ today >= isoweek1monday(d[1] + 1) THEN 1
        ELSE week + 1

Column(r, c) ==
    CASE c = "total_revenue"     -> r.total_revenue
      [] c = "estimated_expense" -> r.estimated_expense
      [] c = "estimated_profit"  -> r.estimated_profit

\* the sum of column c over the rows whose index is in I
RECURSIVE SumRows(_, _, _, _)
SumRows(df, I, c, i) ==
    IF i > Len(df) THEN 0
    ELSE (IF i \in I THEN Column(df[i], c) ELSE 0) + SumRows(df, I, c, i + 1)

\* lines 202-205: groupby("週").agg(sum)
Weekly(df) ==
    LET week  == [i \in DOMAIN df |-> isoweek(df[i].date)]
        weeks == {week[i] : i \in DOMAIN df}
    IN  [w \in weeks |->
           LET I == {i \in DOMAIN df : week[i] = w}
           IN  [total_revenue     |-> SumRows(df, I, "total_revenue", 1),
                estimated_expense |-> SumRows(df, I, "estimated_expense", 1),
                estimated_profit  |-> SumRows(df, I, "estimated_profit", 1)]]

\* lines 209-210: groupby("曜日").mean().reindex(dow_order)
DowAvg(df) ==
    [w \in 0..6 |->
       LET I == {i \in DOMAIN df : df[i].weekday = w}
       IN  IF I = {} THEN NaN
           ELSE FMul(FromInt(SumRows(df, I, "estimated_profit", 1)), 1,
                     Cardinality(I))]

\* min(x, 1.0) of a finite float
MinOne(x) == IF x[1] < x[2] THEN x ELSE <<1, 1>>

\* line 216
Progress(actual_pl, target_pl) ==
    IF target_pl > 0 THEN MinOne(FMul(FromInt(actual_pl), 1, target_pl))
    ELSE <<0, 1>>

\* st.progress accepts a value in [0.0, 1.0] and raises on any other
ProgressAccepted(progress) == 0 <= progress[1] /\ progress[1] <= progress[2]

\* lines 220-227: the message under the progress bar
Message(df, actual_pl, target_pl) ==
    IF actual_pl >= target_pl THEN "achieved"
    ELSE IF Cardinality({i \in DOMAIN df : df[i].weekday < 5}) > 0 THEN "remaining"
    ELSE "none"

\* lines 199-227: the aggregates, the progress value and, when st.progress
\* accepted it, the message
Aggregates(df, target_pl) ==
    LET actual_pl == SumRows(df, DOMAIN df, "estimated_profit", 1)
        progress  == Progress(actual_pl, target_pl)
    IN  [shown     |-> "aggregates",
         weekly    |-> Weekly(df),
         dow_avg   |-> DowAvg(df),
         target_pl |-> target_pl,
         actual_pl |-> actual_pl,
         progress  |-> progress,
         raised    |-> IF ProgressAccepted(progress) THEN "none"
                       ELSE "StreamlitAPIException",
         message   |-> IF ProgressAccepted(progress)
                       THEN Message(df, actual_pl, target_pl) ELSE "none"]

\* a dashboard that aggregates without looking for a stored result
show_dashboard_unguarded(result, target_pl) == Aggregates(result.df, target_pl)

\* lines 194-227: what one run of show_dashboard puts on the page: the warning
\* alone when no result is stored, else the aggregates
show_dashboard(result, target_pl) ==
    IF ~result.present THEN [shown |-> "warning"]
    ELSE Aggregates(result.df, target_pl)

(***************************************************************************)
(* The session, lines 86-128 and 130-157.  Every user interaction reruns   *)
(* main() with the widget values of that interaction.                      *)
(***************************************************************************)
\* rows of the shape the sample masters draw (lines 23-26 and 37)
SampleRevRow == RevRow(Num(1500000), 7, 12)

SampleExpRow == ExpRow(Num(2000000))

\* tables a data editor or an uploaded CSV can hold
SessionRevTables == {<<>>, <<SampleRevRow>>, <<RevRow(Text, 5, 3)>>}

SessionExpTables == {<<>>, <<SampleExpRow>>, <<ExpRow(Missing)>>}

\* lines 134-147: the values the report's widgets can hold
WidgetArgs ==
    {Args(2024, 2, 20, Factors([m \in 1..12 |-> DefaultSeasonalFactors[m]]), n) :
        n \in {<<100>>, <<95, 105, 100>>}}

Targets == {DefaultTarget, 1000000, 0, -100000}

Menus == {"input", "report", "dashboard"}

\* lines 91-94: the sample masters, cut to one row each
Init ==
    /\ menu = "input"
    /\ rev_master = <<SampleRevRow>>
    /\ exp_master = <<SampleExpRow>>
    /\ daily_result = NoResult
    /\ call = [state |-> "none"]
    /\ dash = NotRendered

\* line 89 and lines 96-101: the sidebar radio picks a page, which is rendered
SelectMenu(m) ==
    /\ menu' = m
    /\ dash' = IF m = "dashboard" THEN show_dashboard(daily_result, DefaultTarget)
               ELSE NotRendered
    /\ UNCHANGED <<rev_master, exp_master, daily_result, call>>

\* lines 109-112
SaveRev(t) ==
    /\ menu = "input"
    /\ rev_master' = t
    /\ UNCHANGED <<menu, exp_master, daily_result, call, dash>>

\* lines 115-118
SaveExp(t) ==
    /\ menu = "input"
    /\ exp_master' = t
    /\ UNCHANGED <<menu, rev_master, daily_result, call, dash>>

\* lines 121-124
UploadRev(t) ==
    /\ menu = "input"
    /\ rev_master' = t
    /\ UNCHANGED <<menu, exp_master, daily_result, call, dash>>

\* lines 125-128
UploadExp(t) ==
    /\ menu = "input"
    /\ exp_master' = t
    /\ UNCHANGED <<menu, rev_master, daily_result, call, dash>>

\* lines 149-157: the run button of the report page
ClickRun(a) == menu = "report" /\ DoRun(a)

\* line 214 and lines 194-227: a new target reruns the dashboard
SetTarget(t) ==
    /\ menu = "dashboard"
    /\ dash' = show_dashboard(daily_result, t)
    /\ UNCHANGED <<menu, rev_master, exp_master, daily_result, call>>

Next ==
    \/ \E m \in Menus : SelectMenu(m)
    \/ \E t \in SessionRevTables : SaveRev(t)
    \/ \E t \in SessionExpTables : SaveExp(t)
    \/ \E t \in SessionRevTables : UploadRev(t)
    \/ \E t \in SessionExpTables : UploadExp(t)
    \/ \E a \in WidgetArgs : ClickRun(a)
    \/ \E t \in Targets : SetTarget(t)

Spec == Init /\ [][Next]_vars

(***************************************************************************)
(* The estimator called directly: the inputs are drawn in the initial      *)
(* state and the call is applied to them.                                  *)
(***************************************************************************)
InitEst ==
    /\ menu = "report"
    /\ \E in \in EstInputs :
          /\ rev_master = in[1]
          /\ exp_master = in[2]
          /\ call = [state |-> "pending", args |-> in[3], raised |-> "none",
                     rows |-> 0]
    /\ daily_result = NoResult
    /\ dash = NotRendered

Estimate == call.state = "pending" /\ DoRun(call.args)

NextEst == Estimate

SpecEst == InitEst /\ [][NextEst]_vars

(***************************************************************************)
(* Properties.  The calendar and the sums they use are written here from   *)
(* their definitions, apart from the operators of the model.               *)
(***************************************************************************)
Called == call.state \in {"returned", "raised"}

Returned == call.state = "returned"

ValidYearMonth(a) ==
    a.year >= 1 /\ a.year <= 9999 /\ a.month >= 1 /\ a.month <= 12

\* every monthly_base cell of both tables is a number
NumericTables ==
    /\ \A i \in DOMAIN rev_master : rev_master[i].monthly_base.kind = "num"
    /\ \A i \in DOMAIN exp_master : exp_master[i].monthly_base.kind = "num"

\* the Gregorian length of a month
GregorianDays(y, m) ==
    IF m = 2
    THEN (IF (y % 4 = 0 /\ y % 100 # 0) \/ y % 400 = 0 THEN 29 ELSE 28)
    ELSE 31 - (((m - 1) % 7) % 2)

\* Sakamoto's day of the week: 0 = Sunday .. 6 = Saturday
SakamotoDow(y, m, d) ==
    LET t  == <<0, 3, 2, 5, 0, 3, 5, 1, 4, 6, 2, 4>>
        yy == IF m < 3 THEN y - 1 ELSE y
    IN  (yy + (yy \div 4) - (yy \div 100) + (yy \div 400) + t[m] + d) % 7

IsWorkingDay(y, m, d) == SakamotoDow(y, m, d) \in 1..5

\* C1: for a valid (year, month) and tables of numeric amounts the call
\* returns one row per day of the month, row i dated day i: as many rows as
\* the month has days (leap years respected), ascending, no gap, no duplicate,
\* from day 1 to the last day.
C1_OneRowPerDay ==
    (Called /\ ValidYearMonth(call.args) /\ NumericTables) =>
        /\ Returned
        /\ daily_result.present
        /\ Len(daily_result.df) = GregorianDays(call.args.year, call.args.month)
        /\ \A i \in DOMAIN daily_result.df :
              daily_result.df[i].date = <<call.args.year, call.args.month, i>>

C1_Witness ==
    /\ Returned
    /\ call.args.year = 2024 /\ call.args.month = 2
    /\ Len(daily_result.df) = 29
    /\ daily_result.df[29].date = <<2024, 2, 29>>

\* C2: in every returned row, total_revenue = estimated_revenue +
\* shipping_revenue and estimated_profit = total_revenue - estimated_expense,
\* on the rounded integers.
C2_RoundedIdentities ==
    Returned =>
        \A i \in DOMAIN daily_result.df :
            LET r == daily_result.df[i]
            IN  /\ r.total_revenue = r.estimated_revenue + r.shipping_revenue
                /\ r.estimated_profit = r.total_revenue - r.estimated_expense

\* C3: cumulative_profit of row k is the sum of estimated_profit over rows
\* 1..k; the last row's cumulative_profit is the sum over the whole output.
C3_RunningSum ==
    Returned =>
        LET df == daily_result.df
        IN  /\ \A k \in DOMAIN df :
                  df[k].cumulative_profit =
                      (IF k = 1 THEN 0 ELSE df[k - 1].cumulative_profit)
                        + df[k].estimated_profit
            /\ df[Len(df)].cumulative_profit =
                   SumRows(df, DOMAIN df, "estimated_profit", 1)

C3_Witness ==
    /\ Returned
    /\ daily_result.df[1].estimated_profit # 0
    /\ daily_result.df[2].estimated_profit # 0
    /\ daily_result.df[2].cumulative_profit =
           daily_result.df[1].estimated_profit + daily_result.df[2].estimated_profit

\* C4: a call with a month outside 1..12 or a year outside 1..9999 raises a
\* ValueError (IllegalMonthError is one) before any row is produced, and
\* nothing is returned or stored.
C4_InvalidDateRaises ==
    (Called /\ ~ValidYearMonth(call.args)) =>
        /\ call.state = "raised"
        /\ call.raised \in {"IllegalMonthError", "ValueError"}
        /\ call.rows = 0
        /\ ~daily_result.present

C4_Witness ==
    /\ call.state = "raised"
    /\ call.args.month = 13
    /\ call.raised = "IllegalMonthError"
    /\ rev_master # <<>>

\* a row the error taxonomy calls malformed
MalformedRev(r) ==
    \/ r.monthly_base.kind # "num"
    \/ r.shipping_fee_rate < 0
    \/ r.shipping_fee_rate > 100

MalformedTables ==
    \/ \E i \in DOMAIN rev_master : MalformedRev(rev_master[i])
    \/ \E i \in DOMAIN exp_master : exp_master[i].monthly_base.kind # "num"

\* C5: a call on a table with a malformed row (non-numeric or missing
\* monthly_base, shipping_fee_rate outside [0, 1]) is aborted with an error
\* and returns no result.
C5_MalformedRowAborts ==
    (Called /\ ValidYearMonth(call.args) /\ MalformedTables) =>
        call.state = "raised" /\ ~daily_result.present

\* the mapping a call uses when a missing month takes the given factor
Filled(seasonal_factors, missing) ==
    Factors([m \in 1..12 |->
               IF ~seasonal_factors.none /\ m \in DOMAIN seasonal_factors.map
               THEN seasonal_factors.map[m]
               ELSE missing[m]])

Ones == [m \in 1..12 |-> 100]

OmitsTargetMonth(a) ==
    ~a.seasonal_factors.none /\ a.month \notin DOMAIN a.seasonal_factors.map

ExampleCall ==
    /\ Called
    /\ rev_master = <<RevRow(Num(3000000), 0, 1)>>
    /\ exp_master = <<>>
    /\ call.args = Args(2024, 2, 0, Factors([m \in {2} |-> 88]), <<100>>)

\* the Saturdays and Sundays of February 2024
WeekendFeb2024 == {3, 4, 10, 11, 17, 18, 24, 25}

\* C7 as stated: 29 rows; Monday-to-Friday rows have estimated_revenue
\* round(3000000/29 * 0.88 * 1.2) = 109241, Saturday and Sunday rows
\* round(3000000/29 * 0.88 * 1.2 * 0.3) = 32772.
C7_ExampleWithBonus ==
    ExampleCall =>
        /\ Returned
        /\ Len(daily_result.df) = 29
        /\ \A i \in DOMAIN daily_result.df :
              daily_result.df[i].estimated_revenue =
                  IF i \in WeekendFeb2024 THEN 32772 ELSE 109241

\* C7 amended: 29 rows; Monday-to-Friday rows have estimated_revenue
\* round(3000000/29 * 0.88) = 91034 (the row's peak month is 1, not 2, so
\* there is no bonus), Saturday and Sunday rows round(3000000/29 * 0.88 * 0.3)
\* = 27310.
C7_ExampleNoBonus ==
    ExampleCall =>
        /\ Returned
        /\ Len(daily_result.df) = 29
        /\ \A i \in DOMAIN daily_result.df :
              daily_result.df[i].estimated_revenue =
                  IF i \in WeekendFeb2024 THEN 27310 ELSE 91034

C7_Witness == ExampleCall /\ Returned /\ daily_result.df[3].estimated_revenue = 27310

\* sum over the rows of monthly_base, in tenths, times 12 for a row whose
\* seasonal_peak is month m and times 10 otherwise (m = 0: no row has a bonus)
RECURSIVE BaseSum(_, _, _)
BaseSum(a, m, i) ==
    IF i > Len(a) THEN 0
    ELSE a[i].monthly_base.v * (IF m # 0 /\ a[i].seasonal_peak = m THEN 12 ELSE 10)
           + BaseSum(a, m, i + 1)

\* base sum / days * season_factor * (1 + inflation_rate) * day_factor
Expected(sum, a, d) ==
    FMul(FMul(FMul(FromInt(sum), SeasonFactor(a.seasonal_factors, a.month), 100),
              1000 + a.inflation_rate, 1000),
         IF IsWorkingDay(a.year, a.month, d) THEN 10 ELSE 3,
         100 * GregorianDays(a.year, a.month))

\* C8: with noise fixed at 1.0, each day's revenue is the sum over the revenue
\* rows of monthly_base/days * season_factor * (1 + inflation_rate) *
\* day_factor * peak_bonus, with day_factor 1.0 on Monday..Friday and 0.3 on
\* Saturday and Sunday and peak_bonus 1.2 for a row whose seasonal_peak is the
\* target month and 1.0 otherwise; each day's expense is the same sum over the
\* expense rows without peak_bonus.
C8_FactorsOfADay ==
    (Returned /\ call.args.noise = <<100>>) =>
        \A i \in DOMAIN daily_result.df :
            /\ daily_result.df[i].estimated_revenue =
                   Round(Expected(BaseSum(rev_master, call.args.month, 1),
                                  call.args, i))
            /\ daily_result.df[i].estimated_expense =
                   Round(Expected(BaseSum(exp_master, 0, 1), call.args, i))

C8_Witness ==
    /\ Returned
    /\ call.args.noise = <<100>>
    /\ \E i \in DOMAIN rev_master : rev_master[i].seasonal_peak = call.args.month
    /\ \E i \in DOMAIN rev_master : rev_master[i].seasonal_peak # call.args.month
    /\ exp_master # <<>>
    /\ daily_result.df[3].weekday = 5
    /\ daily_result.df[3].estimated_revenue > 0
    /\ daily_result.df[3].estimated_expense > 0

\* C9: the dashboard shows aggregates only when a result is stored, and a
\* result is stored only by an estimation run that returned; a dashboard
\* rendered without a stored result shows the warning and no aggregate.
C9_AggregatesNeedResult ==
    [][/\ dash'.shown = "aggregates" => daily_result'.present
       /\ (menu' = "dashboard" /\ ~daily_result'.present) => dash'.shown = "warning"
       /\ daily_result' # daily_result =>
             (call'.state = "returned" /\ daily_result'.present)]_vars

C9_Witness ==
    /\ dash.shown = "aggregates"
    /\ daily_result.present
    /\ call.state = "raised"

\* C10: the progress value given to the progress bar lies in [0, 1] for every
\* stored result and every target, and the "target achieved" message is shown
\* exactly when the summed estimated_profit is at least the target.
C10_ProgressInUnitInterval ==
    dash.shown = "aggregates" =>
        /\ 0 <= dash.progress[1] /\ dash.progress[1] <= dash.progress[2]
        /\ dash.message = "achieved" <=> dash.actual_pl >= dash.target_pl

====
